---- MODULE Spec2Model ----
(***************************************************************************)
(* Model of the block-list aggregation scripts build_list.py and main.py.  *)
(* Strings are sequences of one-character strings, so that prefix, suffix, *)
(* slicing and lexicographic comparison are computed character by          *)
(* character as Python computes them.                                      *)
(***************************************************************************)
EXTENDS Integers, Sequences, FiniteSets, TLC

(***************************************************************************)
(* Bounds of the model.                                                    *)
(***************************************************************************)
\* most lines in the body of a successful response of a regular source
MaxBody == 2
\* most lines in the body of a non-2xx response of a regular source
MaxErrBody == 1
\* DOMAIN_LIMIT of both scripts (300000 there), scaled to the model's inputs
DOMAIN_LIMIT == 2
\* the number of history entries save_history keeps (365 there), scaled
HISTORY_KEEP == 3
\* most consecutive runs of build_list.py over the same working directory
MaxRuns == 2
\* most pieces a line given to the line parsers is made of
MaxPieces == 3

(***************************************************************************)
(* Python str primitives.                                                  *)
(***************************************************************************)
\* the characters of the model in code point order
Alphabet ==
    << " ", "!", "#", "*", ".", "0", "1", "2", "7", "A", "M", "W", "X", "Y",
       "[", "^", "a", "c", "m", "w", "x", "y", "|" >>

\* position of a character in code point order (str comparison compares code points)
Ord(c) == CHOOSE k \in 1..Len(Alphabet) : Alphabet[k] = c

\* str.lower() on one character
LowerChar(c) ==
    CASE c = "A" -> "a"
      [] c = "B" -> "b"
      [] c = "C" -> "c"
      [] c = "I" -> "i"
      [] c = "M" -> "m"
      [] c = "O" -> "o"
      [] c = "S" -> "s"
      [] c = "W" -> "w"
      [] c = "X" -> "x"
      [] c = "Y" -> "y"
      [] OTHER -> c

\* str.lower()
Lower(s) == [k \in 1..Len(s) |-> LowerChar(s[k])]

\* str.isspace() on one character
IsSpace(c) == c = " "

\* s[n:]
Drop(s, n) == SubSeq(s, n + 1, Len(s))

\* str.lstrip()
RECURSIVE LStrip(_)
LStrip(s) ==
    IF s # << >> /\ IsSpace(Head(s)) THEN LStrip(Tail(s)) ELSE s

\* str.rstrip()
RECURSIVE RStrip(_)
RStrip(s) ==
    IF s # << >> /\ IsSpace(s[Len(s)]) THEN RStrip(SubSeq(s, 1, Len(s) - 1)) ELSE s

\* str.strip()
Strip(s) == RStrip(LStrip(s))

\* str.startswith(p)
StartsWith(s, p) == Len(s) >= Len(p) /\ SubSeq(s, 1, Len(p)) = p

\* str.endswith(p)
EndsWith(s, p) == Len(s) >= Len(p) /\ SubSeq(s, Len(s) - Len(p) + 1, Len(s)) = p

\* mutation of EndsWithAny: the string is compared with the suffix as a whole
EndsWithAny_WholeString(s, suffixes) == \E p \in suffixes : s = p

\* str.endswith(tuple): true when the string ends with any member
EndsWithAny(s, suffixes) == \E p \in suffixes : EndsWith(s, p)

\* c in s
Contains(s, c) == \E k \in 1..Len(s) : s[k] = c

\* s.split(c)[0]: the part before the first occurrence of c
RECURSIVE BeforeFirst(_, _)
BeforeFirst(s, c) ==
    IF s = << >> \/ Head(s) = c THEN << >>
    ELSE << Head(s) >> \o BeforeFirst(Tail(s), c)

\* the first whitespace-free run of s, s not starting with whitespace
RECURSIVE FirstToken(_)
FirstToken(s) ==
    IF s = << >> \/ IsSpace(Head(s)) THEN << >>
    ELSE << Head(s) >> \o FirstToken(Tail(s))

\* str.split(): the tokens between runs of whitespace
RECURSIVE Split(_)
Split(s) ==
    LET t == LStrip(s)
    IN  IF t = << >> THEN << >>
        ELSE << FirstToken(t) >> \o Split(Drop(t, Len(FirstToken(t))))

\* a < b on str: lexicographic by code point, a proper prefix is smaller
RECURSIVE StrLess(_, _)
StrLess(a, b) ==
    IF b = << >> THEN FALSE
    ELSE IF a = << >> THEN TRUE
    ELSE IF Head(a) # Head(b) THEN Ord(Head(a)) < Ord(Head(b))
    ELSE StrLess(Tail(a), Tail(b))

\* str.replace(old, "") : remove every non-overlapping occurrence, left to right
RECURSIVE RemoveAll(_, _)
RemoveAll(s, old) ==
    IF s = << >> THEN << >>
    ELSE IF StartsWith(s, old) THEN RemoveAll(Drop(s, Len(old)), old)
    ELSE << Head(s) >> \o RemoveAll(Tail(s), old)

(***************************************************************************)
(* String literals used by the scripts.                                    *)
(***************************************************************************)
WWW_DOT == << "w", "w", "w", "." >>
IP_ZERO == << "0", ".", "0", ".", "0", ".", "0" >>
IP_LOCAL == << "1", "2", "7", ".", "0", ".", "0", ".", "1" >>
STAR_DOT == << "*", "." >>

(***************************************************************************)
(* The line parsers.                                                       *)
(***************************************************************************)
\* mutation of FetchDomainsLine: only 0.0.0.0 is taken as a sinkhole address
FetchDomainsLine_ZeroOnly(raw) ==
    LET l1 == Lower(Strip(raw))
        l2 == IF Contains(l1, "#") THEN Strip(BeforeFirst(l1, "#")) ELSE l1
        parts == Split(l2)
    IN  IF l2 = << >> \/ StartsWith(l2, << "!" >>) THEN {}
        ELSE IF Len(parts) >= 2 /\ parts[1] = IP_ZERO THEN { parts[2] }
        ELSE IF Len(parts) = 1 THEN { parts[1] }
        ELSE {}

\* build_list.py fetch_domains, body of the loop: the set of domains one line adds
FetchDomainsLine(raw) ==
    LET l1 == Lower(Strip(raw))
        l2 == IF Contains(l1, "#") THEN Strip(BeforeFirst(l1, "#")) ELSE l1
        parts == Split(l2)
    IN  IF l2 = << >> \/ StartsWith(l2, << "!" >>) THEN {}
        ELSE IF Len(parts) >= 2 /\ parts[1] \in { IP_ZERO, IP_LOCAL } THEN { parts[2] }
        ELSE IF Len(parts) = 1 THEN { parts[1] }
        ELSE {}

\* main.py parse_domains, body of the loop: the set of domains one line adds
ParseDomainsLine(raw) ==
    LET l1 == Lower(Strip(raw))
        l2 == Strip(BeforeFirst(l1, "#"))
        l3 == IF StartsWith(l2, STAR_DOT) THEN Drop(l2, 2) ELSE l2
        parts == Split(l3)
    IN  IF l1 = << >> \/ StartsWith(l1, << "!" >>) \/ StartsWith(l1, << "#" >>) THEN {}
        ELSE IF Len(parts) >= 2 /\ parts[1] \in { IP_ZERO, IP_LOCAL } THEN { parts[2] }
        ELSE IF Len(parts) = 1 THEN { parts[1] }
        ELSE {}

\* main.py parse_domains
RECURSIVE parse_domains(_)
parse_domains(lines) ==
    IF lines = << >> THEN {}
    ELSE ParseDomainsLine(Head(lines)) \cup parse_domains(Tail(lines))

\* build_list.py fetch_domains, the loop over the lines of the response text
RECURSIVE FetchDomainsLines(_)
FetchDomainsLines(lines) ==
    IF lines = << >> THEN {}
    ELSE FetchDomainsLine(Head(lines)) \cup FetchDomainsLines(Tail(lines))

(***************************************************************************)
(* Configuration of the scripts.                                           *)
(***************************************************************************)
\* SOURCES, its first two entries (url is the index, then weight and category)
SOURCES ==
    << [weight |-> 15, tag |-> "Malware"],
       [weight |-> 10, tag |-> "Tracking"] >>

SourceIds == 1..Len(SOURCES)

\* SPAM_TLD_URL, the URL of the exclusion list
SPAM_TLD_URL == 0

\* main.py: the weight and category given to the future of SPAM_TLD_URL
SPAM_WEIGHT == 20
SPAM_TAG == "Spam TLDs"

\* every URL the scripts fetch
Urls == { SPAM_TLD_URL } \cup SourceIds

\* FALLBACK_TLDS, two of its members
FALLBACK_TLDS == { << ".", "m", "w" >>, << ".", "c", "a", "m" >> }

(***************************************************************************)
(* What the network serves: the inputs of a run.                           *)
(***************************************************************************)
\* lines a regular source can serve
SourceLines ==
    { << "x", ".", "c" >>,
      IP_ZERO \o << " " >> \o WWW_DOT \o << "x", ".", "c" >>,
      WWW_DOT \o WWW_DOT \o << "x", ".", "c" >>,
      << "a", ".", "x", ".", "c" >>,
      << "Y", ".", "M", "W", " " >>,
      WWW_DOT }

\* lines the body of a 4xx/5xx response can carry
ErrorLines == { << "x", ".", "c" >>, WWW_DOT }

\* lines the exclusion list can serve: a single label, a wildcard of two labels
SpamLines == { << "m", "w" >>, << "*", ".", "x", ".", "c" >> }

\* a set as a sequence, in a fixed order
RECURSIVE SeqOf(_)
SeqOf(S) ==
    IF S = {} THEN << >>
    ELSE LET e == CHOOSE x \in S : TRUE IN << e >> \o SeqOf(S \ { e })

\* the bodies of at most n lines
Bodies(lines, n) == { SeqOf(S) : S \in { T \in SUBSET lines : Cardinality(T) <= n } }

\* a response: fetched with status 200, fetched with a 4xx/5xx status, or
\* requests.get raised (timeout, connection error)
SourceResponses ==
    [kind : { "ok" }, body : Bodies(SourceLines, MaxBody)]
      \cup [kind : { "http_error" }, body : Bodies(ErrorLines, MaxErrBody)]
      \cup [kind : { "exception" }, body : { << >> }]

SpamResponses ==
    [kind : { "ok" }, body : Bodies(SpamLines, 1)]
      \cup [kind : { "http_error", "exception" }, body : { << >> }]

NetChoices ==
    { n \in [Urls -> SourceResponses \cup SpamResponses] :
        /\ n[SPAM_TLD_URL] \in SpamResponses
        /\ \A u \in SourceIds : n[u] \in SourceResponses }

(***************************************************************************)
(* State.                                                                  *)
(***************************************************************************)
VARIABLES
    prog,               \* the script that is run: "build_list" or "main"
    pc,                 \* the statement of main() the main thread is at
    net,                \* what each URL serves during the run
    \* build_list.py main()
    spam_tlds,          \* the exclusion suffixes returned by fetch_spam_tlds
    removed_tld_count,
    src_i,              \* index in SOURCES of the next source of the ingest loop
    source_sets,        \* tag index -> the set fetch_domains returned
    domain_data,        \* domain -> [score, sources]
    final_domains,
    \* main.py main()
    futures,            \* url -> [state, result] of the future of fetch_url(url)
    processed,          \* the futures as_completed has yielded
    domain_scores,      \* the Counter: domain -> score ...
    key_order,          \* ... and its keys in insertion order
    final_list,
    \* build_list.py main(), start and end of a run
    run,                \* the number of the run over the same working directory
    today,              \* datetime.date.today(), as a day number
    prev_domains,
    churn,
    history,            \* the list save_history returned
    \* files of the working directory
    blocklist_txt,      \* [state, lines]
    adblock_txt,        \* [state, lines]
    history_json,       \* [state, entries]
    stats_html,         \* "absent" or "written"
    \* a line parser applied to one line
    lp_line,
    lp_fetch,           \* what fetch_domains adds for the line
    lp_parse,           \* what parse_domains adds for the line
    lp_done

bl_vars == << spam_tlds, removed_tld_count, src_i, source_sets, domain_data, final_domains >>
mp_vars == << futures, processed, domain_scores, key_order, final_list >>
run_vars == << run, today >>
report_vars == << prev_domains, churn, history >>
disk_vars == << blocklist_txt, adblock_txt, history_json, stats_html >>
tail_vars == << run_vars, report_vars, disk_vars >>
lp_vars == << lp_line, lp_fetch, lp_parse, lp_done >>
vars == << prog, pc, net, bl_vars, mp_vars, tail_vars, lp_vars >>

\* the empty dict
EmptyDict == [k \in {} |-> 0]

\* a file that does not exist
AbsentFile == [state |-> "absent", lines |-> << >>]
AbsentHistory == [state |-> "absent", entries |-> << >>]

\* the names of a process that has just started
FreshMemory ==
    /\ spam_tlds = {}
    /\ removed_tld_count = 0
    /\ src_i = 1
    /\ source_sets = EmptyDict
    /\ domain_data = EmptyDict
    /\ final_domains = << >>
    /\ futures = [u \in Urls |-> [state |-> "none", result |-> << >>]]
    /\ processed = {}
    /\ domain_scores = EmptyDict
    /\ key_order = << >>
    /\ final_list = << >>
    /\ prev_domains = {}
    /\ churn = [added |-> 0, removed |-> 0]
    /\ history = << >>

\* no line is given to the line parsers
NoParserInput ==
    /\ lp_line = << >>
    /\ lp_fetch = {}
    /\ lp_parse = {}
    /\ lp_done = TRUE

\* one of the two scripts is started in a working directory without files
Init ==
    /\ prog \in { "build_list", "main" }
    /\ pc = IF prog = "build_list" THEN "read_previous" ELSE "submit"
    /\ net \in NetChoices
    /\ FreshMemory
    /\ run = 1
    /\ today = 1
    /\ blocklist_txt = AbsentFile
    /\ adblock_txt = AbsentFile
    /\ history_json = AbsentHistory
    /\ stats_html = "absent"
    /\ NoParserInput

(***************************************************************************)
(* Ranking, shared by both scripts:                                        *)
(* sorted(items, key=lambda x: (-score, name)) and the slice [:DOMAIN_LIMIT]*)
(***************************************************************************)
\* mutation of RankKeyLess: the score is not negated in the sort key
RankKeyLess_ScoreAscending(sa, a, sb, b) == (sa < sb) \/ (sa = sb /\ StrLess(a, b))

\* (-sa, a) < (-sb, b) on Python tuples
RankKeyLess(sa, a, sb, b) == (0 - sa < 0 - sb) \/ (sa = sb /\ StrLess(a, b))

\* the keys of a dict ordered by the rank key; score[k] is the score of key k
RECURSIVE SortedByRank(_, _)
SortedByRank(keys, score) ==
    IF keys = {} THEN << >>
    ELSE LET first == CHOOSE k \in keys :
                        \A o \in keys \ { k } : RankKeyLess(score[k], k, score[o], o)
         IN  << first >> \o SortedByRank(keys \ { first }, score)

\* mutation of Take: the slice is left out
Take_NoSlice(seq, n) == seq

\* seq[:n]
Take(seq, n) == SubSeq(seq, 1, IF Len(seq) < n THEN Len(seq) ELSE n)

\* the set of the elements of a sequence
Range(seq) == { seq[k] : k \in 1..Len(seq) }

(***************************************************************************)
(* build_list.py                                                           *)
(***************************************************************************)
\* fetch_spam_tlds, the suffix one line of the list adds
SpamTldOfLine(raw) ==
    LET line == Lower(Strip(raw))
        clean == RemoveAll(RemoveAll(line, STAR_DOT), << "." >>)
    IN  IF line # << >> /\ ~StartsWith(line, << "#" >>) /\ clean # << >>
        THEN { << "." >> \o clean }
        ELSE {}

\* fetch_spam_tlds, the loop over the lines of the response text
RECURSIVE SpamTldsOfLines(_)
SpamTldsOfLines(lines) ==
    IF lines = << >> THEN {}
    ELSE SpamTldOfLine(Head(lines)) \cup SpamTldsOfLines(Tail(lines))

\* mutation of fetch_spam_tlds: the final "if not tlds" is left out
fetch_spam_tlds_NoEmptyCheck(response) ==
    IF response.kind = "ok" THEN SpamTldsOfLines(response.body) ELSE FALLBACK_TLDS

\* fetch_spam_tlds
fetch_spam_tlds(response) ==
    LET tlds == IF response.kind = "ok" THEN SpamTldsOfLines(response.body)
                ELSE FALLBACK_TLDS
    IN  IF tlds = {} THEN FALLBACK_TLDS ELSE tlds

\* fetch_domains: requests.get raising leaves the set empty; any response
\* that arrives, whatever its status, is parsed
fetch_domains(response) ==
    IF response.kind = "exception" THEN {} ELSE FetchDomainsLines(response.body)

\* the body of "for d in domains" for one domain that passed the TLD filter
IngestOne(data, d, weight, tag) ==
    LET name == IF StartsWith(d, WWW_DOT) THEN Drop(d, 4) ELSE d
    IN  IF name \in DOMAIN data
        THEN [data EXCEPT ![name] = [score |-> @.score + weight,
                                     sources |-> Append(@.sources, tag)]]
        ELSE data @@ (name :> [score |-> weight, sources |-> << tag >>])

\* "for d in domains" over the domains in the order ds
RECURSIVE IngestAll(_, _, _, _, _)
IngestAll(data, ds, tlds, weight, tag) ==
    IF ds = << >> THEN data
    ELSE IF EndsWithAny(Head(ds), tlds)
    THEN IngestAll(data, Tail(ds), tlds, weight, tag)
    ELSE IngestAll(IngestOne(data, Head(ds), weight, tag), Tail(ds), tlds, weight, tag)

BL_FetchSpamTlds ==
    /\ prog = "build_list"
    /\ pc = "fetch_spam_tlds"
    /\ spam_tlds' = fetch_spam_tlds(net[SPAM_TLD_URL])
    /\ removed_tld_count' = 0
    /\ pc' = "ingest"
    /\ UNCHANGED << prog, net, src_i, source_sets, domain_data, final_domains, mp_vars, tail_vars, lp_vars >>

\* one iteration of "for url, weight, tag in SOURCES"
BL_Ingest ==
    /\ prog = "build_list"
    /\ pc = "ingest"
    /\ src_i <= Len(SOURCES)
    /\ LET domains == fetch_domains(net[src_i])
           src == SOURCES[src_i]
       IN  /\ source_sets' = source_sets @@ (src_i :> domains)
           /\ removed_tld_count' =
                removed_tld_count + Cardinality({ d \in domains : EndsWithAny(d, spam_tlds) })
           /\ domain_data' = IngestAll(domain_data, SeqOf(domains), spam_tlds, src.weight, src.tag)
    /\ src_i' = src_i + 1
    /\ UNCHANGED << prog, pc, net, spam_tlds, final_domains, mp_vars, tail_vars, lp_vars >>

\* mutation of BL_Scores: every key is ranked with the same score
BL_Scores_Flat == [k \in DOMAIN domain_data |-> 0]

\* the score of every key of domain_data
BL_Scores == [k \in DOMAIN domain_data |-> domain_data[k].score]

\* "2. Rank & Cut"
BL_RankAndCut ==
    /\ prog = "build_list"
    /\ pc = "ingest"
    /\ src_i > Len(SOURCES)
    /\ final_domains' = Take(SortedByRank(DOMAIN domain_data, BL_Scores), DOMAIN_LIMIT)
    /\ pc' = "analysis"
    /\ UNCHANGED << prog, net, spam_tlds, removed_tld_count, src_i, source_sets,
                    domain_data, mp_vars, tail_vars, lp_vars >>

\* PREVIOUS_LIST_FILE is read: the second token of every line that starts
\* with "0.0.0.0"; an IndexError of line.split()[1] is caught with the rest
PreviousDomains(file) ==
    LET hosts == { k \in 1..Len(file.lines) : StartsWith(file.lines[k], IP_ZERO) }
    IN  IF file.state # "ok" THEN {}
        ELSE IF \E k \in hosts : Len(Split(file.lines[k])) < 2 THEN {}
        ELSE { Split(file.lines[k])[2] : k \in hosts }

\* mutation of LastN: the slice keeps the oldest entries, history[:n]
LastN_Oldest(seq, n) == IF Len(seq) <= n THEN seq ELSE SubSeq(seq, 1, n)

\* history[-n:]
LastN(seq, n) == IF Len(seq) <= n THEN seq ELSE SubSeq(seq, Len(seq) - n + 1, Len(seq))

\* save_history: json.load of HISTORY_FILE, any exception of it leaves []
LoadedHistory(file) == IF file.state = "list" THEN file.entries ELSE << >>

\* save_history: the value json.load returned has no append (dict, str, number)
AppendRaises(file) == file.state = "not_list"

\* save_history
save_history(file, stats_data) == LastN(Append(LoadedHistory(file), stats_data), HISTORY_KEEP)

\* the header lines of the output files
HOSTS_HEADER ==
    << "#", " ", "I", "s", "a", "a", "c", "'", "s", " ", "S", "O", "C", " ",
       "B", "l", "o", "c", "k", "l", "i", "s", "t" >>
ADBLOCK_HEADER ==
    << "!", " ", "I", "s", "a", "a", "c", "'", "s", " ", "S", "O", "C", " ",
       "B", "l", "o", "c", "k", "l", "i", "s", "t" >>

\* the lines written to blocklist.txt
HostsLines(domains) ==
    << HOSTS_HEADER >> \o [k \in 1..Len(domains) |-> IP_ZERO \o << " " >> \o domains[k]]

\* the lines written to adblock.txt
AdblockLines(domains) ==
    << ADBLOCK_HEADER >> \o [k \in 1..Len(domains) |-> << "|", "|" >> \o domains[k] \o << "^" >>]

\* mutation of ChurnStats: the two differences are exchanged
ChurnStats_Exchanged(final_set, prev) ==
    [added |-> Cardinality(prev \ final_set), removed |-> Cardinality(final_set \ prev)]

\* churn = {"added": len(final_set - prev_domains), "removed": len(prev_domains - final_set)}
ChurnStats(final_set, prev) ==
    [added |-> Cardinality(final_set \ prev), removed |-> Cardinality(prev \ final_set)]

\* the start of main(): the previous list is read
BL_ReadPrevious ==
    /\ prog = "build_list"
    /\ pc = "read_previous"
    /\ prev_domains' = PreviousDomains(blocklist_txt)
    /\ pc' = "fetch_spam_tlds"
    /\ UNCHANGED << prog, net, bl_vars, mp_vars, run_vars, churn, history, disk_vars, lp_vars >>

\* "3. Deep Analysis" to the writing of HISTORY_FILE; history.append raises
\* outside the try of save_history and ends the run
BL_ChurnAndHistory ==
    /\ prog = "build_list"
    /\ pc = "analysis"
    /\ churn' = ChurnStats(Range(final_domains), prev_domains)
    /\ IF AppendRaises(history_json)
       THEN /\ pc' = "crashed"
            /\ UNCHANGED << history, history_json >>
       ELSE /\ history' = save_history(history_json,
                              [date |-> today, total_count |-> Len(final_domains)])
            /\ history_json' = [state |-> "list", entries |-> history']
            /\ pc' = "dashboard"
    /\ UNCHANGED << prog, net, bl_vars, mp_vars, run_vars, prev_domains,
                    blocklist_txt, adblock_txt, stats_html, lp_vars >>

\* generate_dashboard: df_main of no rows has no column 'tld', and
\* df_main['tld'] raises KeyError
BL_GenerateDashboard ==
    /\ prog = "build_list"
    /\ pc = "dashboard"
    /\ IF final_domains = << >>
       THEN pc' = "crashed" /\ UNCHANGED stats_html
       ELSE pc' = "output" /\ stats_html' = "written"
    /\ UNCHANGED << prog, net, bl_vars, mp_vars, run_vars, report_vars,
                    blocklist_txt, adblock_txt, history_json, lp_vars >>

\* blocklist.txt and adblock.txt are written
BL_WriteOutputs ==
    /\ prog = "build_list"
    /\ pc = "output"
    /\ blocklist_txt' = [state |-> "ok", lines |-> HostsLines(final_domains)]
    /\ adblock_txt' = [state |-> "ok", lines |-> AdblockLines(final_domains)]
    /\ pc' = "done"
    /\ UNCHANGED << prog, net, bl_vars, mp_vars, run_vars, report_vars,
                    history_json, stats_html, lp_vars >>

\* the script is started again in the same working directory, the same day
\* or the day after, the network serving what it served
BL_NextRun ==
    /\ prog = "build_list"
    /\ pc \in { "done", "crashed" }
    /\ run < MaxRuns
    /\ run' = run + 1
    /\ today' \in { today, today + 1 }
    /\ pc' = "read_previous"
    /\ spam_tlds' = {}
    /\ removed_tld_count' = 0
    /\ src_i' = 1
    /\ source_sets' = EmptyDict
    /\ domain_data' = EmptyDict
    /\ final_domains' = << >>
    /\ prev_domains' = {}
    /\ churn' = [added |-> 0, removed |-> 0]
    /\ history' = << >>
    /\ UNCHANGED << prog, net, mp_vars, disk_vars, lp_vars >>

(***************************************************************************)
(* main.py                                                                 *)
(***************************************************************************)
\* fetch_url: the lines of a 2xx response, [] on any exception
\* (raise_for_status raises on a 4xx/5xx status)
fetch_url(response) == IF response.kind = "ok" THEN response.body ELSE << >>

\* the weight future_map gives to the future of a URL
FutureWeight(u) == IF u = SPAM_TLD_URL THEN SPAM_WEIGHT ELSE SOURCES[u].weight

\* mutation of AddScore: the weight overwrites the score (a lost update)
AddScore_Overwrite(scores, d, weight) ==
    IF d \in DOMAIN scores THEN [scores EXCEPT ![d] = weight]
    ELSE scores @@ (d :> weight)

\* domain_scores[d] += weight on a Counter
AddScore(scores, d, weight) ==
    IF d \in DOMAIN scores THEN [scores EXCEPT ![d] = @ + weight]
    ELSE scores @@ (d :> weight)

\* "for d in domains: domain_scores[d] += weight" over the domains in the order ds
RECURSIVE AddScores(_, _, _)
AddScores(scores, ds, weight) ==
    IF ds = << >> THEN scores
    ELSE AddScores(AddScore(scores, Head(ds), weight), Tail(ds), weight)

\* the keys a loop over ds inserts into a dict that has the keys old, in order
RECURSIVE NewKeys(_, _)
NewKeys(old, ds) ==
    IF ds = << >> THEN << >>
    ELSE IF Head(ds) \in old THEN NewKeys(old, Tail(ds))
    ELSE << Head(ds) >> \o NewKeys(old \cup { Head(ds) }, Tail(ds))

\* the orders in which a set can be iterated
Orders(S) == { q \in [1..Cardinality(S) -> S] : Range(q) = S }

\* del domain_scores[domain]
DelKey(scores, d) == [k \in (DOMAIN scores) \ { d } |-> scores[k]]

\* "for domain in list(domain_scores)" over the snapshot todo of the keys
RECURSIVE SmartDedupLoop(_, _)
SmartDedupLoop(scores, todo) ==
    IF todo = << >> THEN scores
    ELSE LET domain == Head(todo)
         IN  IF StartsWith(domain, WWW_DOT) /\ Drop(domain, 4) \in DOMAIN scores
             THEN SmartDedupLoop(DelKey(scores, domain), Tail(todo))
             ELSE SmartDedupLoop(scores, Tail(todo))

\* the futures are submitted to the thread pool
MP_Submit ==
    /\ prog = "main"
    /\ pc = "submit"
    /\ futures' = [u \in Urls |-> [state |-> "pending", result |-> << >>]]
    /\ pc' = "as_completed"
    /\ UNCHANGED << prog, net, bl_vars, processed, domain_scores, key_order, final_list, tail_vars, lp_vars >>

\* a worker thread runs fetch_url(u) to completion
MP_FetchUrl(u) ==
    /\ prog = "main"
    /\ futures[u].state = "pending"
    /\ futures' = [futures EXCEPT ![u] = [state |-> "done", result |-> fetch_url(net[u])]]
    /\ UNCHANGED << prog, pc, net, bl_vars, processed, domain_scores, key_order, final_list, tail_vars, lp_vars >>

\* the main thread: one iteration of "for future in as_completed(future_map)"
MP_ProcessFuture(u) ==
    /\ prog = "main"
    /\ pc = "as_completed"
    /\ futures[u].state = "done"
    /\ u \notin processed
    /\ LET domains == parse_domains(futures[u].result)
       IN  \E ds \in Orders(domains) :
              /\ domain_scores' = AddScores(domain_scores, ds, FutureWeight(u))
              /\ key_order' = key_order \o NewKeys(Range(key_order), ds)
    /\ processed' = processed \cup { u }
    /\ UNCHANGED << prog, pc, net, bl_vars, futures, final_list, tail_vars, lp_vars >>

\* "2. Smart Deduplication"
MP_SmartDedup ==
    /\ prog = "main"
    /\ pc = "as_completed"
    /\ processed = Urls
    /\ domain_scores' = SmartDedupLoop(domain_scores, key_order)
    /\ key_order' = SelectSeq(key_order, LAMBDA k : k \in DOMAIN domain_scores')
    /\ pc' = "sort"
    /\ UNCHANGED << prog, net, bl_vars, futures, processed, final_list, tail_vars, lp_vars >>

\* "3. Sort & Cut"
MP_SortAndCut ==
    /\ prog = "main"
    /\ pc = "sort"
    /\ final_list' = Take(SortedByRank(DOMAIN domain_scores, domain_scores), DOMAIN_LIMIT)
    /\ pc' = "output"
    /\ UNCHANGED << prog, net, bl_vars, futures, processed, domain_scores, key_order, tail_vars, lp_vars >>

\* the characters of the decimal digits
DecimalDigits == << "0", "1", "2", "3", "4", "5", "6", "7", "8", "9" >>

\* str(n) of a natural number, as the f-string formats len(final_list)
RECURSIVE Decimal(_)
Decimal(n) ==
    IF n < 10 THEN << DecimalDigits[n + 1] >>
    ELSE Decimal(n \div 10) \o << DecimalDigits[(n % 10) + 1] >>

\* the header lines main.py writes: the title, the total, an empty line
MAIN_TITLE ==
    << "#", " ", "I", "s", "a", "a", "c", "'", "s", " ", "O", "p", "t", "i", "m",
       "i", "z", "e", "d", " ", "B", "l", "o", "c", "k", "l", "i", "s", "t" >>
MAIN_TOTAL == << "#", " ", "T", "o", "t", "a", "l", ":", " " >>

\* the lines of the text main.py writes to blocklist.txt
MainLines(domains) ==
    << MAIN_TITLE, MAIN_TOTAL \o Decimal(Len(domains)), << >> >> \o domains

\* "4. Output"
MP_WriteOutput ==
    /\ prog = "main"
    /\ pc = "output"
    /\ blocklist_txt' = [state |-> "ok", lines |-> MainLines(final_list)]
    /\ pc' = "done"
    /\ UNCHANGED << prog, net, bl_vars, mp_vars, run_vars, report_vars,
                    adblock_txt, history_json, stats_html, lp_vars >>

Next ==
    \/ BL_ReadPrevious
    \/ BL_FetchSpamTlds
    \/ BL_Ingest
    \/ BL_RankAndCut
    \/ BL_ChurnAndHistory
    \/ BL_GenerateDashboard
    \/ BL_WriteOutputs
    \/ MP_Submit
    \/ \E u \in Urls : MP_FetchUrl(u)
    \/ \E u \in Urls : MP_ProcessFuture(u)
    \/ MP_SmartDedup
    \/ MP_SortAndCut
    \/ MP_WriteOutput

Spec == Init /\ [][Next]_vars

(***************************************************************************)
(* build_list.py run repeatedly over a working directory that earlier runs *)
(* or other programs have left in any state.                               *)
(***************************************************************************)
\* n entries of earlier runs, the oldest first, told apart by their count
OldEntries(n) == [k \in 1..n |-> [date |-> 0, total_count |-> k]]

\* HISTORY_FILE: missing, not JSON, JSON that is not a list, a list of entries
HistoryFiles ==
    { [state |-> st, entries |-> << >>] : st \in { "absent", "invalid", "not_list" } }
      \cup { [state |-> "list", entries |-> OldEntries(n)] : n \in 0..(HISTORY_KEEP + 1) }

\* PREVIOUS_LIST_FILE: missing, unreadable, a list of two domains, a list
\* with a line "0.0.0.0" that has no second token
PreviousFiles ==
    { AbsentFile,
      [state |-> "unreadable", lines |-> << >>],
      [state |-> "ok", lines |-> HostsLines(<< << "x", ".", "c" >>, << "y", ".", "m", "w" >> >>)],
      [state |-> "ok", lines |-> << HOSTS_HEADER, IP_ZERO \o << " ", "x", ".", "c" >>, IP_ZERO >>] }

\* the first source answers with status 200 or not at all, the second
\* source does not answer
PersistNets ==
    { n \in NetChoices :
        /\ n[1].kind \in { "ok", "exception" }
        /\ n[2].kind = "exception" }

PersistInit ==
    /\ prog = "build_list"
    /\ pc = "read_previous"
    /\ net \in PersistNets
    /\ FreshMemory
    /\ run = 1
    /\ today = 1
    /\ blocklist_txt \in PreviousFiles
    /\ adblock_txt = AbsentFile
    /\ history_json \in HistoryFiles
    /\ stats_html = "absent"
    /\ NoParserInput

PersistNext ==
    \/ BL_ReadPrevious
    \/ BL_FetchSpamTlds
    \/ BL_Ingest
    \/ BL_RankAndCut
    \/ BL_ChurnAndHistory
    \/ BL_GenerateDashboard
    \/ BL_WriteOutputs
    \/ BL_NextRun

PersistSpec == PersistInit /\ [][PersistNext]_vars

(***************************************************************************)
(* The line parsers of both scripts applied to one line.                   *)
(***************************************************************************)
\* the pieces the lines are made of
Pieces ==
    { << " " >>, << "#" >>, << "!" >>, << "[" >>, STAR_DOT, << "|", "|" >>, << "^" >>,
      << "x", ".", "c" >>, << "X" >>, IP_ZERO, IP_LOCAL }

\* the lines of at most n pieces
RECURSIVE LinesOf(_)
LinesOf(n) ==
    IF n = 0 THEN { << >> }
    ELSE LinesOf(n - 1) \cup { l \o p : l \in LinesOf(n - 1), p \in Pieces }

ParserLines == LinesOf(MaxPieces)

LineInit ==
    /\ prog = "line_parsers"
    /\ pc = "parse"
    /\ net = [u \in Urls |-> [kind |-> "exception", body |-> << >>]]
    /\ FreshMemory
    /\ run = 1
    /\ today = 1
    /\ blocklist_txt = AbsentFile
    /\ adblock_txt = AbsentFile
    /\ history_json = AbsentHistory
    /\ stats_html = "absent"
    /\ lp_line \in ParserLines
    /\ lp_fetch = {}
    /\ lp_parse = {}
    /\ lp_done = FALSE

\* the line is given, as a text of one line, to the loop of fetch_domains
\* and to parse_domains
LP_ParseLine ==
    /\ prog = "line_parsers"
    /\ ~lp_done
    /\ lp_fetch' = FetchDomainsLines(<< lp_line >>)
    /\ lp_parse' = parse_domains(<< lp_line >>)
    /\ lp_done' = TRUE
    /\ UNCHANGED << prog, pc, net, bl_vars, mp_vars, tail_vars, lp_line >>

LineNext == LP_ParseLine

LineSpec == LineInit /\ [][LineNext]_vars

(***************************************************************************)
(* Positions of a run.                                                     *)
(***************************************************************************)
\* build_list.py: the ingest loop has ended
BL_Merged ==
    prog = "build_list" /\ pc \notin { "read_previous", "fetch_spam_tlds" } /\ src_i > Len(SOURCES)

\* build_list.py: final_domains is computed
BL_Ranked == prog = "build_list" /\ pc \notin { "read_previous", "fetch_spam_tlds", "ingest" }

\* main.py: the as_completed loop has ended and the deduplication has not run
MP_Merged == prog = "main" /\ pc = "as_completed" /\ processed = Urls

\* main.py: final_list is computed
MP_Ranked == prog = "main" /\ pc \notin { "submit", "as_completed", "sort" }

(***************************************************************************)
(* Helpers of the properties.                                              *)
(***************************************************************************)
\* the sum of w[e] over the elements e of S
RECURSIVE SumOver(_, _)
SumOver(S, w) ==
    IF S = {} THEN 0
    ELSE LET e == CHOOSE x \in S : TRUE IN w[e] + SumOver(S \ { e }, w)

SourceWeights == [i \in SourceIds |-> SOURCES[i].weight]
UrlWeights == [u \in Urls |-> FutureWeight(u)]

\* main.py: the parsed set of the future of u
MP_ParsedSet(u) == parse_domains(futures[u].result)

\* s.split(c): the parts of s between the occurrences of c
RECURSIVE SplitOn(_, _)
SplitOn(s, c) ==
    LET first == BeforeFirst(s, c)
    IN  IF Len(first) = Len(s) THEN << s >>
        ELSE << first >> \o SplitOn(Drop(s, Len(first) + 1), c)

\* the public suffixes of the domains of the model, all of one label
PublicSuffixes == { << "c" >>, << "m", "w" >>, << "c", "a", "m" >> }

\* the registrable domain: the public suffix and the label left of it;
\* the domain itself when it has no such label
RegistrableDomain(d) ==
    LET labels == SplitOn(d, ".")
        n == Len(labels)
    IN  IF n >= 2 /\ labels[n] \in PublicSuffixes /\ labels[n - 1] # << >>
        THEN labels[n - 1] \o << "." >> \o labels[n]
        ELSE d

(***************************************************************************)
(* Properties.                                                             *)
(***************************************************************************)

\* C1: build_list.py: no domain of final_domains ends with a suffix of the
\* exclusion set returned by fetch_spam_tlds, whatever its score would be.
C1_NoExcludedSuffixInFinal ==
    prog = "build_list" =>
        \A k \in 1..Len(final_domains) :
            \A suffix \in spam_tlds : ~EndsWith(final_domains[k], suffix)

\* C1 witness: a domain with an excluded suffix is listed by every source,
\* and the final list is not empty
C1_Witness ==
    /\ BL_Ranked
    /\ final_domains # << >>
    /\ \E d \in source_sets[1] :
          /\ \A i \in SourceIds : d \in source_sets[i]
          /\ \E suffix \in spam_tlds : EndsWith(d, suffix)

\* C2: after the merge the score of every registry domain is the sum of the
\* weights of exactly the sources whose parsed set contained the domain.
C2_ScoreIsSumOfContainingSources ==
    /\ BL_Merged =>
          \A d \in DOMAIN domain_data :
              domain_data[d].score =
                  SumOver({ i \in SourceIds : d \in source_sets[i] }, SourceWeights)
    /\ MP_Merged =>
          \A d \in DOMAIN domain_scores :
              domain_scores[d] =
                  SumOver({ u \in Urls : d \in MP_ParsedSet(u) }, UrlWeights)

\* C3: the final list has at most DOMAIN_LIMIT domains.
C3_AtMostDomainLimit ==
    /\ Len(final_domains) <= DOMAIN_LIMIT
    /\ Len(final_list) <= DOMAIN_LIMIT

\* C3 witness: the registry holds more than DOMAIN_LIMIT domains and the
\* final list holds DOMAIN_LIMIT of them
C3_Witness ==
    /\ MP_Ranked
    /\ Cardinality(DOMAIN domain_scores) > DOMAIN_LIMIT
    /\ Len(final_list) = DOMAIN_LIMIT

\* C4: adjacent entries (d1,s1), (d2,s2) of the final list have s1 > s2, or
\* s1 = s2 and d1 < d2.
C4_RankedByScoreThenName ==
    /\ BL_Ranked =>
          \A k \in 1..(Len(final_domains) - 1) :
              LET d1 == final_domains[k]
                  d2 == final_domains[k + 1]
                  s1 == domain_data[d1].score
                  s2 == domain_data[d2].score
              IN  s1 > s2 \/ (s1 = s2 /\ StrLess(d1, d2))
    /\ MP_Ranked =>
          \A k \in 1..(Len(final_list) - 1) :
              LET d1 == final_list[k]
                  d2 == final_list[k + 1]
                  s1 == domain_scores[d1]
                  s2 == domain_scores[d2]
              IN  s1 > s2 \/ (s1 = s2 /\ StrLess(d1, d2))

\* C4 witness: a final list whose first entries differ in score, and are so
\* ordered although the lower-scored name is the smaller string
C4_Witness ==
    /\ BL_Ranked
    /\ Len(final_domains) >= 2
    /\ domain_data[final_domains[1]].score > domain_data[final_domains[2]].score
    /\ StrLess(final_domains[2], final_domains[1])

\* C5: the final list never holds both "www." + R and R.
C5_NoWwwRootPair ==
    /\ \A d \in Range(final_domains) :
          StartsWith(d, WWW_DOT) => Drop(d, 4) \notin Range(final_domains)
    /\ \A d \in Range(final_list) :
          StartsWith(d, WWW_DOT) => Drop(d, 4) \notin Range(final_list)

\* build_list.py: the domains the sources listed that passed the TLD filter
BL_Admitted ==
    { d \in UNION { source_sets[i] : i \in DOMAIN source_sets } :
        \A suffix \in spam_tlds : ~EndsWith(d, suffix) }

\* C6: the www-collapse removes exactly the domains "www." + R whose
\* remainder R is in the registry, and changes no score; a domain "www." + R
\* whose remainder is not in the registry stays under its name.
C6_WwwCollapseExact ==
    [][ /\ (prog = "main" /\ pc = "as_completed" /\ pc' = "sort") =>
              /\ DOMAIN domain_scores' =
                    { d \in DOMAIN domain_scores :
                        ~(StartsWith(d, WWW_DOT) /\ Drop(d, 4) \in DOMAIN domain_scores) }
              /\ \A d \in DOMAIN domain_scores' : domain_scores'[d] = domain_scores[d]
        /\ (prog = "build_list" /\ pc = "ingest" /\ pc' = "analysis") =>
              \A d \in BL_Admitted :
                  (StartsWith(d, WWW_DOT) /\ Drop(d, 4) \notin BL_Admitted)
                      => d \in DOMAIN domain_data
      ]_vars

\* C7: the final list holds no domain whose registrable domain, different
\* from the domain, is in the final list too.
C7_NoSubdomainOfListedRegistrable ==
    /\ \A d \in Range(final_domains) :
          RegistrableDomain(d) # d => RegistrableDomain(d) \notin Range(final_domains)
    /\ \A d \in Range(final_list) :
          RegistrableDomain(d) # d => RegistrableDomain(d) \notin Range(final_list)

\* C8: main.py: no step of a worker thread writes domain_scores, and when
\* the as_completed loop has ended the score of every domain is the sum of
\* the weights of the futures whose parsed set held it, in whatever order
\* the futures completed.
C8_SingleThreadedReduction ==
    /\ [][ (\E u \in Urls : futures[u].state = "pending" /\ futures'[u].state = "done")
              => (domain_scores' = domain_scores /\ key_order' = key_order) ]_vars
    /\ [](MP_Merged =>
            LET parsed == [u \in Urls |-> MP_ParsedSet(u)]
            IN  /\ DOMAIN domain_scores = UNION { parsed[u] : u \in Urls }
                /\ \A d \in DOMAIN domain_scores :
                      domain_scores[d] =
                          SumOver({ u \in Urls : d \in parsed[u] }, UrlWeights))

\* C8 witness: the loop has ended and a domain has the weights of two futures
C8_Witness ==
    /\ MP_Merged
    /\ \E d \in DOMAIN domain_scores :
          Cardinality({ u \in Urls : d \in MP_ParsedSet(u) }) >= 2

\* main.py: the registry the served contents lead to
MP_MergedOfNet ==
    LET parsed == [u \in Urls |-> parse_domains(fetch_url(net[u]))]
    IN  [d \in UNION { parsed[u] : u \in Urls } |->
            SumOver({ u \in Urls : d \in parsed[u] }, UrlWeights)]

\* main.py: the final list of the served contents when the registry is
\* iterated in one fixed order
MP_FinalOfNet ==
    LET kept == SmartDedupLoop(MP_MergedOfNet, SeqOf(DOMAIN MP_MergedOfNet))
    IN  Take(SortedByRank(DOMAIN kept, kept), DOMAIN_LIMIT)

\* C9: main.py: the final list is a function of the source contents alone,
\* the same for every completion order and every iteration order.
C9_FinalListIndependentOfOrder ==
    MP_Ranked => final_list = MP_FinalOfNet

\* C10: a source whose fetch failed (timeout, connection error, non-2xx
\* response) contributes an empty parsed set.
C10_FailedFetchContributesNothing ==
    /\ prog = "build_list" =>
          \A i \in DOMAIN source_sets : net[i].kind # "ok" => source_sets[i] = {}
    /\ prog = "main" =>
          \A u \in Urls :
              (futures[u].state = "done" /\ net[u].kind # "ok") => MP_ParsedSet(u) = {}

\* build_list.py: fetch_spam_tlds of the present run has returned
BL_TldsFetched == prog = "build_list" /\ pc \notin { "read_previous", "fetch_spam_tlds" }

\* the lines of the exclusion list that are neither blank nor a comment
SpamEntryLines(lines) ==
    { k \in 1..Len(lines) :
        LET line == Strip(lines[k]) IN line # << >> /\ Head(line) # "#" }

\* C11: fetch_spam_tlds never returns an empty exclusion set, and when the
\* fetch raised, answered with a status other than 200 or yielded no entry
\* the exclusion set is exactly FALLBACK_TLDS.
C11_ExclusionSetNeverEmpty ==
    BL_TldsFetched =>
        /\ spam_tlds # {}
        /\ ( \/ net[SPAM_TLD_URL].kind # "ok"
             \/ SpamEntryLines(net[SPAM_TLD_URL].body) = {} ) => spam_tlds = FALLBACK_TLDS

\* C11 witness: the exclusion list was served with status 200 and no entry,
\* and the ingest has used the fallback set
C11_Witness ==
    /\ BL_Merged
    /\ net[SPAM_TLD_URL].kind = "ok"
    /\ SpamEntryLines(net[SPAM_TLD_URL].body) = {}
    /\ spam_tlds = FALLBACK_TLDS

\* the literal suffix an entry of the exclusion list stands for: "co.uk" and
\* "*.co.uk" stand for ".co.uk"
LiteralSuffix(raw) ==
    LET line == Lower(Strip(raw))
    IN  << "." >> \o (IF StartsWith(line, STAR_DOT) THEN Drop(line, 2) ELSE line)

\* the entries of the exclusion list that have more than one label
MultiLabelEntries(lines) ==
    { k \in SpamEntryLines(lines) : Contains(Drop(LiteralSuffix(lines[k]), 1), ".") }

\* C12: an entry of the exclusion list with more than one label is applied
\* as its literal trailing substring: no domain of the final list ends with
\* "." followed by the entry.
C12_MultiLabelEntryIsLiteralSuffix ==
    (BL_Ranked /\ net[SPAM_TLD_URL].kind = "ok") =>
        \A k \in MultiLabelEntries(net[SPAM_TLD_URL].body) :
            \A j \in 1..Len(final_domains) :
                ~EndsWith(final_domains[j], LiteralSuffix(net[SPAM_TLD_URL].body[k]))

\* build_list.py: the churn of the present run has been computed
BL_ChurnComputed == prog = "build_list" /\ pc \in { "dashboard", "output", "done", "crashed" }

\* C13: churn.added is the number of domains of the final list that are not
\* in the previous snapshot, churn.removed the number of domains of the
\* previous snapshot that are not in the final list, the snapshot being
\* empty or not; so added + |P /\ F| = |F| and removed + |P /\ F| = |P|.
C13_ChurnIsSetDifference ==
    BL_ChurnComputed =>
        LET F == Range(final_domains)
            P == prev_domains
        IN  /\ churn.added = Cardinality({ d \in F : d \notin P })
            /\ churn.removed = Cardinality({ d \in P : d \notin F })
            /\ churn.added + Cardinality(P \cap F) = Cardinality(F)
            /\ churn.removed + Cardinality(P \cap F) = Cardinality(P)

\* C13 witness: a previous snapshot of two domains, one of them kept, one
\* gone, and a final list with one new domain
C13_Witness ==
    /\ BL_ChurnComputed
    /\ Cardinality(prev_domains) = 2
    /\ Cardinality(prev_domains \cap Range(final_domains)) = 1
    /\ churn.added = 1
    /\ churn.removed = 1

\* C14: the hosts file written from the final list, parsed again with the
\* line parsers, gives exactly the set of domains of the final list.
C14_HostsFileRoundTrip ==
    (prog = "build_list" /\ pc = "done") =>
        /\ FetchDomainsLines(blocklist_txt.lines) = Range(final_domains)
        /\ parse_domains(blocklist_txt.lines) = Range(final_domains)

\* the smaller of two numbers
Min(a, b) == IF a <= b THEN a ELSE b

\* C15: a run that finds a list H in the history file leaves in it the last
\* HISTORY_KEEP entries of H followed by the entry of the run, the newest
\* last; nothing else in a run changes the file, and after a run the
\* file never holds more than HISTORY_KEEP entries.
C15_HistoryIsBoundedAppendOnly ==
    /\ [][ /\ (pc = "analysis" /\ history_json.state = "list") =>
                LET full == Append(history_json.entries,
                                   [date |-> today, total_count |-> Len(final_domains)])
                    new == history_json'.entries
                IN  /\ history_json'.state = "list"
                    /\ Len(new) = Min(Len(full), HISTORY_KEEP)
                    /\ \A k \in 1..Len(new) : new[k] = full[Len(full) - Len(new) + k]
           /\ pc # "analysis" => history_json' = history_json
         ]_vars
    /\ []((prog = "build_list" /\ pc \in { "dashboard", "output", "done" }) =>
            Len(history_json.entries) <= HISTORY_KEEP)

\* C15 witness: the second run is over, the file is full, its two newest
\* entries are those of the two runs and the oldest entries were evicted
C15_Witness ==
    /\ prog = "build_list" /\ pc = "done" /\ run = 2
    /\ Len(history_json.entries) = HISTORY_KEEP
    /\ history_json.entries[HISTORY_KEEP].date = today
    /\ history_json.entries[HISTORY_KEEP - 1].date >= 1
    /\ history_json.entries[1].date = 0
    /\ history_json.entries[1].total_count > 1

\* the previous list that gives no snapshot: missing, unreadable, or with a
\* line that starts with "0.0.0.0" and has no second token
BadPreviousFile(file) ==
    \/ file.state # "ok"
    \/ \E k \in 1..Len(file.lines) :
          StartsWith(file.lines[k], IP_ZERO) /\ Len(Split(file.lines[k])) < 2

\* C16: a history file or previous list that is missing, unreadable or of
\* invalid content is treated as empty: the run does not fail, the history
\* after the run is exactly the one new entry, the previous snapshot is the
\* empty set.
C16_BadPersistedStateIsEmpty ==
    [][ /\ (pc = "read_previous" /\ BadPreviousFile(blocklist_txt)) =>
              (pc' # "crashed" /\ prev_domains' = {})
        /\ (pc = "analysis" /\ history_json.state # "list") =>
              /\ pc' # "crashed"
              /\ history_json' =
                    [state |-> "list",
                     entries |-> << [date |-> today, total_count |-> Len(final_domains)] >>]
      ]_vars

\* C17: a run in which sources or the exclusion list fail to fetch does not
\* end with an error before blocklist.txt and adblock.txt are written.
C17_FetchFailuresAreNotFatal ==
    (prog = "build_list" /\ \E u \in Urls : net[u].kind # "ok") => pc # "crashed"

\* C18: the line parsers add no domain for a blank line or for a line whose
\* first non-space character is '#', '!' or '['.
C18_CommentAndBlankLinesYieldNothing ==
    lp_done =>
        LET t == LStrip(lp_line)
        IN  (t = << >> \/ Head(t) \in { "#", "!", "[" }) => (lp_fetch = {} /\ lp_parse = {})

\* the bare domain of the decorated lines
BARE_DOMAIN == << "x", ".", "c" >>

\* the line "*.D", the line "||D^" and the line "D"
DecoratedLines ==
    { STAR_DOT \o BARE_DOMAIN, << "|", "|" >> \o BARE_DOMAIN \o << "^" >>, BARE_DOMAIN }

\* C19: the line parsers strip the prefix "*.", the prefix "||" and the
\* suffix "^": the lines "*.D", "||D^" and "D" yield the one domain D, and
\* no parsed domain contains '*', '|' or '^'.
C19_DecorationsAreStripped ==
    lp_done =>
        /\ \A d \in lp_fetch \cup lp_parse :
              ~Contains(d, "*") /\ ~Contains(d, "|") /\ ~Contains(d, "^")
        /\ lp_line \in DecoratedLines =>
              (lp_fetch = { BARE_DOMAIN } /\ lp_parse = { BARE_DOMAIN })

\* the line trimmed, in lower case, cut at the first '#' and trimmed again
CutLine(raw) == Strip(BeforeFirst(Lower(Strip(raw)), "#"))

\* the second token of a line of two tokens or more whose first token is a
\* sinkhole address, the token of a line of one token, nothing otherwise
TokenRule(line) ==
    LET parts == Split(line)
    IN  IF Len(parts) >= 2 /\ (parts[1] = IP_ZERO \/ parts[1] = IP_LOCAL) THEN { parts[2] }
        ELSE IF Len(parts) = 1 THEN { parts[1] }
        ELSE {}

\* C20, as stated: for every line the parsers yield what the token rule
\* gives for the line trimmed, in lower case and cut at the first '#'.
C20_TokenRuleOnEveryLine ==
    lp_done => (lp_fetch = TokenRule(CutLine(lp_line)) /\ lp_parse = TokenRule(CutLine(lp_line)))

\* C20, amended: a line that after the cut starts with '!' yields nothing;
\* for every other line fetch_domains yields what the token rule gives for
\* the cut line, and parse_domains what the rule gives for the cut line
\* without one leading "*.".
C20_TokenRuleOnUncommentedLine ==
    lp_done =>
        LET c == CutLine(lp_line)
        IN  IF c # << >> /\ Head(c) = "!"
            THEN lp_fetch = {} /\ lp_parse = {}
            ELSE /\ lp_fetch = TokenRule(c)
                 /\ lp_parse = TokenRule(IF StartsWith(c, STAR_DOT) THEN Drop(c, 2) ELSE c)

\* C20 witness: a hosts line of the address 127.0.0.1 has yielded its
\* second token
C20_Witness ==
    /\ lp_done
    /\ Len(Split(CutLine(lp_line))) >= 2
    /\ Split(CutLine(lp_line))[1] = IP_LOCAL
    /\ lp_fetch = { BARE_DOMAIN }
    /\ lp_parse = { BARE_DOMAIN }

\* the final list of the script that runs
FinalOfRun == IF prog = "build_list" THEN final_domains ELSE final_list

\* the last n lines of a file, and the lines before them
EntryLines(file, n) == SubSeq(file.lines, Len(file.lines) - n + 1, Len(file.lines))
HeaderLines(file, n) == SubSeq(file.lines, 1, Len(file.lines) - n)

\* C21: from the final list the run writes a hosts file whose header
\* comment block states the total count and whose entries are the lines
\* "0.0.0.0 <domain>", and an adblock file with a leading comment header
\* whose entries are the lines "||<domain>^"; both list the domains of the
\* final list, each once, in the order of the final list.
C21_OutputFileFormats ==
    pc = "done" =>
        LET final == FinalOfRun
            n == Len(final)
            header == HeaderLines(blocklist_txt, n)
        IN  /\ blocklist_txt.state = "ok"
            /\ Len(blocklist_txt.lines) > n
            /\ \A k \in 1..Len(header) : header[k] = << >> \/ Head(header[k]) = "#"
            /\ \E k \in 1..Len(header) : Decimal(n) \in Range(Split(header[k]))
            /\ \A k \in 1..n :
                  EntryLines(blocklist_txt, n)[k] = IP_ZERO \o << " " >> \o final[k]
            /\ adblock_txt.state = "ok"
            /\ Len(adblock_txt.lines) > n
            /\ \A k \in 1..n :
                  EntryLines(adblock_txt, n)[k] = << "|", "|" >> \o final[k] \o << "^" >>
            /\ \A j, k \in 1..n : j # k => final[j] # final[k]

\* C22: removed_tld_count is the number of distinct domains the exclusion
\* filter removed, also when several sources list a removed domain.
C22_RemovedCountIsDistinct ==
    BL_Merged =>
        removed_tld_count =
            Cardinality({ d \in UNION { source_sets[i] : i \in SourceIds } :
                            \E suffix \in spam_tlds : EndsWith(d, suffix) })

\* the categories of the sources from the i-th on whose parsed set holds d
RECURSIVE TagsFrom(_, _)
TagsFrom(i, d) ==
    IF i > Len(SOURCES) THEN << >>
    ELSE (IF d \in source_sets[i] THEN << SOURCES[i].tag >> ELSE << >>) \o TagsFrom(i + 1, d)

\* C23: after the merge the tag list of every registry domain holds the
\* category of each source whose parsed set contained the domain, once, in
\* the order of SOURCES, and nothing else.
C23_TagListIsContainingSources ==
    BL_Merged => \A d \in DOMAIN domain_data : domain_data[d].sources = TagsFrom(1, d)

\* C24: main.py: no domain of final_list ends with a suffix of the fetched
\* exclusion list, and the entries of the exclusion list are never scored:
\* every scored name comes from a regular source and has the weights of the
\* regular sources alone.
C24_MainFiltersByExclusionList ==
    MP_Ranked =>
        LET entries == fetch_url(net[SPAM_TLD_URL])
            suffixes == { LiteralSuffix(entries[k]) : k \in SpamEntryLines(entries) }
            parsed == [i \in SourceIds |-> parse_domains(fetch_url(net[i]))]
        IN  /\ \A k \in 1..Len(final_list) :
                  \A suffix \in suffixes : ~EndsWith(final_list[k], suffix)
            /\ \A d \in DOMAIN domain_scores :
                  /\ \E i \in SourceIds : d \in parsed[i]
                  /\ domain_scores[d] =
                        SumOver({ i \in SourceIds : d \in parsed[i] }, SourceWeights)

\* the domains that reached the ranking, and their scores
Survivors == IF prog = "build_list" THEN DOMAIN domain_data ELSE DOMAIN domain_scores
SurvivorScore(d) == IF prog = "build_list" THEN domain_data[d].score ELSE domain_scores[d]

\* a ranks before b: higher score, or equal score and smaller name
RanksBefore(a, b) ==
    \/ SurvivorScore(a) > SurvivorScore(b)
    \/ SurvivorScore(a) = SurvivorScore(b) /\ StrLess(a, b)

\* the domains of the entry lines of the files the run wrote
WrittenDomains ==
    IF prog = "build_list"
    THEN { Drop(blocklist_txt.lines[k], Len(IP_ZERO) + 1) : k \in 2..Len(blocklist_txt.lines) }
           \cup { SubSeq(adblock_txt.lines[k], 3, Len(adblock_txt.lines[k]) - 1) :
                    k \in 2..Len(adblock_txt.lines) }
    ELSE { blocklist_txt.lines[k] : k \in 4..Len(blocklist_txt.lines) }

\* C25: the final list has min(DOMAIN_LIMIT, number of surviving domains)
\* entries, all of them survivors; every survivor left out ranks after every
\* selected domain; the domains written to the output files are exactly
\* the selection.
C25_TruncationKeepsTop ==
    (BL_Ranked \/ MP_Ranked) =>
        LET final == FinalOfRun
        IN  /\ Len(final) = Min(DOMAIN_LIMIT, Cardinality(Survivors))
            /\ Cardinality(Range(final)) = Len(final)
            /\ Range(final) \subseteq Survivors
            /\ \A cut \in Survivors \ Range(final) :
                  \A kept \in Range(final) : RanksBefore(kept, cut)
            /\ pc = "done" => WrittenDomains = Range(final)

\* C25 witness: the files are written, a survivor was cut, and it has the
\* score of a selected domain
C25_Witness ==
    /\ (BL_Ranked \/ MP_Ranked)
    /\ pc = "done"
    /\ \E cut \in Survivors \ Range(FinalOfRun) :
          \E kept \in Range(FinalOfRun) : SurvivorScore(kept) = SurvivorScore(cut)

\* C26: the network serving what it served to the first run, the previous
\* snapshot of a later run is the set of domains of the final list, and the
\* churn is added = 0 and removed = 0.
C26_SecondRunHasNoChurn ==
    (BL_ChurnComputed /\ run >= 2) =>
        /\ prev_domains = Range(final_domains)
        /\ churn = [added |-> 0, removed |-> 0]

\* C27: build_list.py rewrites the history file only in the step that ends
\* the run with blocklist.txt and adblock.txt written; a run that fails
\* before leaves the file as it was.
C27_HistoryWrittenLast ==
    [][ history_json' # history_json => pc' = "done" ]_vars

====
